---- MODULE Spec2Model ----
(***************************************************************************)
(* A model of the Funda floor-plan proxy of src/server.py: the URL         *)
(* normalizer, the project-id extractor, the sale-status extractor and the *)
(* /funda-fml request handler.                                             *)
(*                                                                         *)
(* Strings are sequences of one-character strings, so that the regular     *)
(* expressions and the string methods of the source are computed character *)
(* by character.  A regular expression is evaluated as the source's regex  *)
(* engine would: a piece of a pattern maps the set of positions at which   *)
(* it may start to the set of positions at which it may end.               *)
(***************************************************************************)
EXTENDS Integers, Sequences, FiniteSets, TLC

VARIABLES
    url,      \* normalizer: the caller's string
    n1,       \* normalizer: normalize_url(url)
    n2,       \* normalizer: normalize_url(n1)
    npc,      \* normalizer: "start", "once", "twice"
    html,     \* extract_project_id: its argument
    epc,      \* extract_project_id: "method1", "method2", "method3", "returned", "raised"
    ret,      \* extract_project_id: the value returned, or the exception raised
    title_doc,  \* extract_sale_status: its argument
    status,     \* extract_sale_status: the value returned
    spc,        \* extract_sale_status: "start", "returned"
    hpc,          \* funda_fml: "receive", "fetch_main", "fetch_page", "fetch_fml", "done"
    req_url,      \* funda_fml: url, the stripped "url" field of the request
    base_url,     \* funda_fml: base_url
    page_url,     \* funda_fml: page_url
    sale_status,  \* funda_fml: sale_status
    resp,         \* funda_fml: resp, what the fetch of the floor-plan page gave
    page_html,    \* funda_fml: html, the body of the floor-plan page
    project_id,   \* funda_fml: project_id
    fml_resp,     \* funda_fml: fml_resp, what the fetch of the FML file gave
    calls,        \* funda_fml: the calls made so far, in order
    response      \* funda_fml: the response returned

normVars == <<url, n1, n2, npc>>
extractVars == <<html, epc, ret>>
statusVars == <<title_doc, status, spc>>
handlerVars == <<hpc, req_url, base_url, page_url, sale_status, resp, page_html, project_id,
                 fml_resp, calls, response>>
vars == <<url, n1, n2, npc, html, epc, ret, title_doc, status, spc,
          hpc, req_url, base_url, page_url, sale_status, resp, page_html, project_id,
          fml_resp, calls, response>>

---------------------------------------------------------------------------
(* Python values *)

\* Python's None.  Every element of a string is a single character, so this
\* value differs from every string.
None == <<"None">>

Min(S) == CHOOSE x \in S : \A y \in S : x <= y
Max(S) == CHOOSE x \in S : \A y \in S : x >= y

RECURSIVE Concat(_)
Concat(fs) == IF fs = <<>> THEN <<>> ELSE Head(fs) \o Concat(Tail(fs))

---------------------------------------------------------------------------
(* Characters and str methods *)

IsSpace(c) == c \in {" ", "\t", "\n", "\r"}

IsDigit(c) == c \in {"0", "1", "2", "3", "4", "5", "6", "7", "8", "9"}

UpperChars == <<"A","B","C","D","E","F","G","H","I","J","K","L","M","N","O","P","Q","R","S","T","U","V","W","X","Y","Z">>
LowerChars == <<"a","b","c","d","e","f","g","h","i","j","k","l","m","n","o","p","q","r","s","t","u","v","w","x","y","z">>

LowerChar(c) ==
    IF \E i \in 1..Len(UpperChars) : UpperChars[i] = c
    THEN LowerChars[CHOOSE i \in 1..Len(UpperChars) : UpperChars[i] = c]
    ELSE c

\* str.lower()
lower(s) == [i \in 1..Len(s) |-> LowerChar(s[i])]

\* str.strip(): leading and trailing whitespace removed
strip(s) ==
    LET keep == {i \in 1..Len(s) : ~IsSpace(s[i])}
    IN  IF keep = {} THEN <<>> ELSE SubSeq(s, Min(keep), Max(keep))

\* str.rstrip(c): every trailing c removed
rstrip(s, c) ==
    LET keep == {i \in 1..Len(s) : s[i] # c}
    IN  IF keep = {} THEN <<>> ELSE SubSeq(s, 1, Max(keep))

\* sub in s
Contains(s, sub) ==
    \E i \in 1..(Len(s) - Len(sub) + 1) : SubSeq(s, i, i + Len(sub) - 1) = sub

\* s.startswith(pre)
startswith(s, pre) == Len(s) >= Len(pre) /\ SubSeq(s, 1, Len(pre)) = pre

---------------------------------------------------------------------------
(* Regular-expression pieces.  A position p in 1..Len(s)+1 is the index of *)
(* the next character to read.                                             *)

\* the literal lit matches s at p; with ic (re.IGNORECASE) lit is lower case
LitAt(s, p, lit, ic) ==
    /\ p + Len(lit) - 1 <= Len(s)
    /\ \A k \in 1..Len(lit) :
          (IF ic THEN LowerChar(s[p + k - 1]) ELSE s[p + k - 1]) = lit[k]

AfterLit(s, P, lit, ic) == {p + Len(lit) : p \in {q \in P : LitAt(s, q, lit, ic)}}

\* .+ without re.DOTALL: one or more characters other than a newline
AfterDotPlus(s, P) ==
    {q \in 2..(Len(s) + 1) :
        \E p \in P : p < q /\ \A k \in p..(q - 1) : s[k] # "\n"}

\* \d+ : one or more digits
AfterDigitsPlus(s, P) ==
    {q \in 2..(Len(s) + 1) :
        \E p \in P : p < q /\ \A k \in p..(q - 1) : IsDigit(s[k])}

---------------------------------------------------------------------------
(* normalize_url *)

MEDIA_SEGMENT == <<"/","m","e","d","i","a","/","p","l","a","t","t","e","g","r","o","n","d","/">>
MEDIA_SUFFIX == <<"/","m","e","d","i","a","/","p","l","a","t","t","e","g","r","o","n","d","/","1">>

\* The positions at which a match of the pattern of FUNDA_DETAIL_ROOT,
\*   ^https?://(www\.)?funda\.nl/detail/.+/(\d+)/?   with re.IGNORECASE,
\* may end in s.
FundaDetailEnds(s) ==
    LET P1 == AfterLit(s, {1}, <<"h","t","t","p">>, TRUE)
        P2 == P1 \cup AfterLit(s, P1, <<"s">>, TRUE)
        P3 == AfterLit(s, P2, <<":","/","/">>, TRUE)
        P4 == P3 \cup AfterLit(s, P3, <<"w","w","w",".">>, TRUE)
        P5 == AfterLit(s, P4, <<"f","u","n","d","a",".","n","l","/","d","e","t","a","i","l","/">>, TRUE)
        P6 == AfterDotPlus(s, P5)
        P7 == AfterLit(s, P6, <<"/">>, TRUE)
        P8 == AfterDigitsPlus(s, P7)
    IN  P8 \cup AfterLit(s, P8, <<"/">>, TRUE)

\* FUNDA_DETAIL_ROOT.match(s): re.match anchors the start only and the
\* pattern has no $, so a match may end anywhere in s.
FUNDA_DETAIL_ROOT(s) == FundaDetailEnds(s) # {}

\* url.strip().rstrip("/")
TrimUrl(u) == rstrip(strip(u), "/")

normalize_url(u) ==
    LET t == TrimUrl(u)
    IN  IF Contains(t, MEDIA_SEGMENT) THEN t
        ELSE IF FUNDA_DETAIL_ROOT(t) THEN t \o MEDIA_SUFFIX
        ELSE t

---------------------------------------------------------------------------
(* More regular-expression pieces *)

\* \s* followed by a character that is not whitespace: the position after
\* the whole run of whitespace that starts at p
SkipSpaces(s, p) == Min({k \in p..Len(s) : ~IsSpace(s[k])} \cup {Len(s) + 1})

\* the position after the whole run of digits that starts at p (p if none)
DigitRunEnd(s, p) == Min({k \in p..Len(s) : ~IsDigit(s[k])} \cup {Len(s) + 1})

\* a regex match object: found, and group(1)
NoMatch == [found |-> FALSE, g |-> <<>>]
Match(g) == [found |-> TRUE, g |-> g]

\* re.search: the match at the leftmost position where At holds
Leftmost(s, At(_), Group(_)) ==
    LET starts == {i \in 1..Len(s) : At(i)}
    IN  IF starts = {} THEN NoMatch ELSE Match(Group(Min(starts)))

---------------------------------------------------------------------------
(* int() and str() of a run of digits.  A Python int is unbounded: it is    *)
(* kept as its decimal digits without leading zeros.                       *)

DigitChars == <<"0", "1", "2", "3", "4", "5", "6", "7", "8", "9">>

DigitVal(c) == (CHOOSE n \in 1..10 : DigitChars[n] = c) - 1

\* int(digits), as canonical decimal digits
int(digits) ==
    LET nz == {i \in 1..Len(digits) : digits[i] # "0"}
    IN  IF nz = {} THEN <<"0">> ELSE SubSeq(digits, Min(nz), Len(digits))

RECURSIVE DecValue(_)
DecValue(d) ==
    IF d = <<>> THEN 0 ELSE 10 * DecValue(SubSeq(d, 1, Len(d) - 1)) + DigitVal(d[Len(d)])

\* idx < n, for an int idx >= 0 and a length n
IntLt(idx, n) == Len(idx) <= 9 /\ DecValue(idx) < n

---------------------------------------------------------------------------
(* json.loads.  A value is [t |-> its Python type, v |-> its content]; an   *)
(* int keeps its decimal digits.  The escapes \b, \f and \uXXXX are not    *)
(* decoded: they occur in none of the documents considered.                *)

JFail == [ok |-> FALSE]
JOk(val, next) == [ok |-> TRUE, val |-> val, next |-> next]

RECURSIVE JsonString(_, _, _)
\* the rest of a string literal, from p, after its opening quote
JsonString(s, p, acc) ==
    IF p > Len(s) THEN JFail
    ELSE IF s[p] = "\"" THEN JOk([t |-> "str", v |-> acc], p + 1)
    ELSE IF s[p] = "\\" THEN
        IF p + 1 > Len(s) THEN JFail
        ELSE IF s[p + 1] = "n" THEN JsonString(s, p + 2, Append(acc, "\n"))
        ELSE IF s[p + 1] = "t" THEN JsonString(s, p + 2, Append(acc, "\t"))
        ELSE IF s[p + 1] = "r" THEN JsonString(s, p + 2, Append(acc, "\r"))
        ELSE IF s[p + 1] \in {"\"", "\\", "/"} THEN JsonString(s, p + 2, Append(acc, s[p + 1]))
        ELSE JFail
    ELSE IF s[p] \in {"\n", "\t", "\r"} THEN JFail
    ELSE JsonString(s, p + 1, Append(acc, s[p]))

\* a number that starts at p: -?(0|[1-9]\d*)(\.\d+)?([eE][-+]?\d+)?
JsonNumber(s, p) ==
    LET d == IF s[p] = "-" THEN p + 1 ELSE p
    IN  IF d > Len(s) \/ ~IsDigit(s[d]) THEN JFail
        ELSE LET e == IF s[d] = "0" THEN d + 1 ELSE DigitRunEnd(s, d)
                 f == IF e <= Len(s) /\ s[e] = "." /\ DigitRunEnd(s, e + 1) > e + 1
                      THEN DigitRunEnd(s, e + 1) ELSE e
                 x == IF f <= Len(s) /\ s[f] \in {"e", "E"}
                      THEN IF f + 1 <= Len(s) /\ s[f + 1] \in {"+", "-"} THEN f + 2 ELSE f + 1
                      ELSE f
                 g == IF x > f /\ DigitRunEnd(s, x) > x THEN DigitRunEnd(s, x) ELSE f
                 digits == SubSeq(s, d, e - 1)
             IN  IF g > e THEN JOk([t |-> "float", v |-> <<>>], g)
                 ELSE IF d > p /\ digits # <<"0">>
                      THEN JOk([t |-> "int", v |-> <<"-">> \o digits], e)
                      ELSE JOk([t |-> "int", v |-> digits], e)

RECURSIVE JsonValue(_, _), JsonElems(_, _, _), JsonMembers(_, _)

\* the value that starts at p
JsonValue(s, p) ==
    IF p > Len(s) THEN JFail
    ELSE IF s[p] = "\"" THEN JsonString(s, p + 1, <<>>)
    ELSE IF s[p] = "[" THEN
        LET q == SkipSpaces(s, p + 1)
        IN  IF q <= Len(s) /\ s[q] = "]" THEN JOk([t |-> "list", v |-> <<>>], q + 1)
            ELSE JsonElems(s, q, <<>>)
    ELSE IF s[p] = "{" THEN
        LET q == SkipSpaces(s, p + 1)
        IN  IF q <= Len(s) /\ s[q] = "}" THEN JOk([t |-> "dict", v |-> <<>>], q + 1)
            ELSE JsonMembers(s, q)
    ELSE IF LitAt(s, p, <<"t","r","u","e">>, FALSE) THEN JOk([t |-> "bool", v |-> <<"T","r","u","e">>], p + 4)
    ELSE IF LitAt(s, p, <<"f","a","l","s","e">>, FALSE) THEN JOk([t |-> "bool", v |-> <<"F","a","l","s","e">>], p + 5)
    ELSE IF LitAt(s, p, <<"n","u","l","l">>, FALSE) THEN JOk([t |-> "NoneType", v |-> <<>>], p + 4)
    ELSE IF LitAt(s, p, <<"N","a","N">>, FALSE) THEN JOk([t |-> "float", v |-> <<>>], p + 3)
    ELSE IF LitAt(s, p, <<"I","n","f","i","n","i","t","y">>, FALSE) THEN JOk([t |-> "float", v |-> <<>>], p + 8)
    ELSE IF LitAt(s, p, <<"-","I","n","f","i","n","i","t","y">>, FALSE) THEN JOk([t |-> "float", v |-> <<>>], p + 9)
    ELSE JsonNumber(s, p)

\* the elements of an array from p, after those in acc
JsonElems(s, p, acc) ==
    LET r == JsonValue(s, p)
    IN  IF ~r.ok THEN JFail
        ELSE LET q == SkipSpaces(s, r.next)
             IN  IF q > Len(s) THEN JFail
                 ELSE IF s[q] = "," THEN JsonElems(s, SkipSpaces(s, q + 1), Append(acc, r.val))
                 ELSE IF s[q] = "]" THEN JOk([t |-> "list", v |-> Append(acc, r.val)], q + 1)
                 ELSE JFail

\* the members of an object from p
JsonMembers(s, p) ==
    IF p > Len(s) \/ s[p] # "\"" THEN JFail
    ELSE LET k == JsonString(s, p + 1, <<>>)
         IN  IF ~k.ok THEN JFail
             ELSE LET c == SkipSpaces(s, k.next)
                  IN  IF c > Len(s) \/ s[c] # ":" THEN JFail
                      ELSE LET r == JsonValue(s, SkipSpaces(s, c + 1))
                           IN  IF ~r.ok THEN JFail
                               ELSE LET q == SkipSpaces(s, r.next)
                                    IN  IF q > Len(s) THEN JFail
                                        ELSE IF s[q] = "," THEN JsonMembers(s, SkipSpaces(s, q + 1))
                                        ELSE IF s[q] = "}" THEN JOk([t |-> "dict", v |-> <<>>], q + 1)
                                        ELSE JFail

\* json.loads(text): the value, or the exception raised
json_loads(text) ==
    LET r == JsonValue(text, SkipSpaces(text, 1))
    IN  IF r.ok /\ SkipSpaces(text, r.next) = Len(text) + 1
        THEN [exc |-> "", val |-> r.val]
        ELSE [exc |-> "JSONDecodeError", val |-> [t |-> "NoneType", v |-> <<>>]]

---------------------------------------------------------------------------
(* extract_project_id *)

QUOTED_PROJECT_ID == <<"\"","p","r","o","j","e","c","t","I","d","\"">>
NUXT_DATA_ID == <<"i","d","=","\"","_","_","N","U","X","T","_","D","A","T","A","_","_","\"">>
SCRIPT_END == <<"<","/","s","c","r","i","p","t",">">>
PROJECT_ID == <<"p","r","o","j","e","c","t","I","d">>
FMLPUB_S3 == <<"f","m","l","p","u","b",".","s","3">>
DOT_FML == <<".","f","m","l">>

\* the least number of digits of a project id: the 6 of \d{6,}
MinIdDigits == 6

\* "projectId"\s*:\s*(\d+)  at i: the start of group 1, or 0
MarkerDigitsAt(h, i) ==
    IF ~LitAt(h, i, QUOTED_PROJECT_ID, FALSE) THEN 0
    ELSE LET a == SkipSpaces(h, i + Len(QUOTED_PROJECT_ID))
         IN  IF a > Len(h) \/ h[a] # ":" THEN 0
             ELSE LET b == SkipSpaces(h, a + 1)
                  IN  IF DigitRunEnd(h, b) > b THEN b ELSE 0

\* re.search(r'"projectId"\s*:\s*(\d+)', html)
MarkerSearch(h) ==
    Leftmost(h, LAMBDA i : MarkerDigitsAt(h, i) > 0,
                LAMBDA i : LET b == MarkerDigitsAt(h, i)
                           IN  SubSeq(h, b, DigitRunEnd(h, b) - 1))

\* id="__NUXT_DATA__"[^>]*>\s*(\[.+?\])\s*</script>  with re.DOTALL, at i:
\* group 1 as <<first, last>>, or <<0, 0>>.  [^>]* stops at the first ">";
\* the lazy .+? stops at the first "]" that \s*</script> follows.
NuxtGroupAt(h, i) ==
    IF ~LitAt(h, i, NUXT_DATA_ID, FALSE) THEN <<0, 0>>
    ELSE LET gts == {k \in (i + Len(NUXT_DATA_ID))..Len(h) : h[k] = ">"}
         IN  IF gts = {} THEN <<0, 0>>
             ELSE LET b == SkipSpaces(h, Min(gts) + 1)
                      ends == {e \in (b + 2)..Len(h) :
                                  /\ h[e] = "]"
                                  /\ LitAt(h, SkipSpaces(h, e + 1), SCRIPT_END, FALSE)}
                  IN  IF b > Len(h) \/ h[b] # "[" \/ ends = {} THEN <<0, 0>>
                      ELSE <<b, Min(ends)>>

\* re.search(r'id="__NUXT_DATA__"[^>]*>\s*(\[.+?\])\s*</script>', html, re.DOTALL)
NuxtSearch(h) ==
    Leftmost(h, LAMBDA i : NuxtGroupAt(h, i)[1] > 0,
                LAMBDA i : SubSeq(h, NuxtGroupAt(h, i)[1], NuxtGroupAt(h, i)[2]))

\* isinstance(val, (str, int)); a bool is an int
IsStrOrInt(val) == val.t \in {"str", "int", "bool"}

\* re.match(r'^\d{6,}$', s): $ also matches before a final newline
MatchesIdPattern(s) ==
    LET e == DigitRunEnd(s, 1)
    IN  /\ e - 1 >= MinIdDigits
        /\ \/ e = Len(s) + 1
           \/ e = Len(s) /\ s[e] = "\n"

\* what a step of the function does next
Return(v) == [kind |-> "return", v |-> v]
FallThrough == [kind |-> "next", v |-> None]
Raise(exc) == [kind |-> "raise", v |-> <<exc>>]

\* except (json.JSONDecodeError, IndexError)
Method1Caught == {"JSONDecodeError", "IndexError"}

\* Method 1, lines 61-62: the value found in the array is checked
Method1Accept(val) ==
    IF IsStrOrInt(val) /\ MatchesIdPattern(val.v) THEN Return(val.v) ELSE FallThrough

\* Method 1, lines 59-60: the array is indexed
Method1Index(idx, nuxt_array) ==
    IF IntLt(idx, Len(nuxt_array))
    THEN Method1Accept(nuxt_array[DecValue(idx) + 1])
    ELSE FallThrough

\* Method 1, lines 57-64: the try block, on what json.loads gave
Method1Try(idx, loaded) ==
    IF loaded.exc # ""
    THEN IF loaded.exc \in Method1Caught THEN FallThrough ELSE Raise(loaded.exc)
    ELSE Method1Index(idx, loaded.val.v)

\* Method 1, lines 55-56: on the match of the script element
Method1Array(idx, nuxt_match) ==
    IF ~nuxt_match.found THEN FallThrough
    ELSE Method1Try(idx, json_loads(nuxt_match.g))

\* Method 1, lines 53-54: on the match of the marker
Method1Marker(h, m) ==
    IF ~m.found THEN FallThrough
    ELSE Method1Array(int(m.g), NuxtSearch(h))

\* Method 1: Nuxt data array
Method1(h) == Method1Marker(h, MarkerSearch(h))

\* a run of at least MinIdDigits digits starts at p
IdRunAt(h, p) == DigitRunEnd(h, p) - p >= MinIdDigits

\* Method 2: re.search(r'projectId[=:](\d{6,})', html)
Method2Search(h) ==
    Leftmost(h, LAMBDA i : /\ LitAt(h, i, PROJECT_ID, FALSE)
                           /\ i + Len(PROJECT_ID) <= Len(h)
                           /\ h[i + Len(PROJECT_ID)] \in {"=", ":"}
                           /\ IdRunAt(h, i + Len(PROJECT_ID) + 1),
                LAMBDA i : LET b == i + Len(PROJECT_ID) + 1
                           IN  SubSeq(h, b, DigitRunEnd(h, b) - 1))

\* if m: return m.group(1)
ReturnGroup(m) == IF m.found THEN Return(m.g) ELSE FallThrough

Method2(h) == ReturnGroup(Method2Search(h))

\* fmlpub\.s3[^"]*?/(\d{6,})\.fml  at i: the positions of the "/" before a
\* group 1 that the lazy [^"]*? can reach
S3Slashes(h, i) ==
    IF ~LitAt(h, i, FMLPUB_S3, FALSE) THEN {}
    ELSE {k \in (i + Len(FMLPUB_S3))..Len(h) :
             /\ \A j \in (i + Len(FMLPUB_S3))..(k - 1) : h[j] # "\""
             /\ h[k] = "/"
             /\ IdRunAt(h, k + 1)
             /\ LitAt(h, DigitRunEnd(h, k + 1), DOT_FML, FALSE)}

\* Method 3: re.search(r'fmlpub\.s3[^"]*?/(\d{6,})\.fml', html)
Method3Search(h) ==
    Leftmost(h, LAMBDA i : S3Slashes(h, i) # {},
                LAMBDA i : LET k == Min(S3Slashes(h, i))
                           IN  SubSeq(h, k + 1, DigitRunEnd(h, k + 1) - 1))

Method3(h) == ReturnGroup(Method3Search(h))

\* r, unless r goes on to the next method: then what the next method gives
OrElse(r, next) == IF r.kind # "next" THEN r ELSE next

\* the whole function: its return value, or the exception it raises
extract_project_id(h) ==
    OrElse(Method1(h), OrElse(Method2(h), OrElse(Method3(h), Return(None))))

---------------------------------------------------------------------------
(* extract_sale_status *)

TITLE_OPEN == <<"<","t","i","t","l","e">>
TITLE_CLOSE == <<"<","/","t","i","t","l","e",">">>

\* <title[^>]*>([^<]+)</title>  with re.IGNORECASE, at i: group 1 as
\* <<first, last>>, or <<0, 0>>.  [^>]* stops at the first ">" and [^<]+ at
\* the first "<" after it.
TitleGroupAt(h, i) ==
    IF ~LitAt(h, i, TITLE_OPEN, TRUE) THEN <<0, 0>>
    ELSE LET gts == {k \in (i + Len(TITLE_OPEN))..Len(h) : h[k] = ">"}
         IN  IF gts = {} THEN <<0, 0>>
             ELSE LET b == Min(gts) + 1
                      e == Min({k \in b..Len(h) : h[k] = "<"} \cup {Len(h) + 1})
                  IN  IF e > b /\ LitAt(h, e, TITLE_CLOSE, TRUE) THEN <<b, e - 1>>
                      ELSE <<0, 0>>

\* re.search(r'<title[^>]*>([^<]+)</title>', html, re.IGNORECASE)
TitleSearch(h) ==
    Leftmost(h, LAMBDA i : TitleGroupAt(h, i)[1] > 0,
                LAMBDA i : SubSeq(h, TitleGroupAt(h, i)[1], TitleGroupAt(h, i)[2]))

VERKOCHT_ONDER_VOORBEHOUD == <<"v","e","r","k","o","c","h","t"," ","o","n","d","e","r"," ","v","o","o","r","b","e","h","o","u","d">>
VERKOCHT == <<"v","e","r","k","o","c","h","t">>
TE_KOOP == <<"t","e"," ","k","o","o","p">>
TE_HUUR == <<"t","e"," ","h","u","u","r">>

LabelVerkochtOnderVoorbehoud == <<"V","e","r","k","o","c","h","t"," ","o","n","d","e","r"," ","v","o","o","r","b","e","h","o","u","d">>
LabelVerkocht == <<"V","e","r","k","o","c","h","t">>
LabelTeKoop == <<"T","e"," ","k","o","o","p">>
LabelTeHuur == <<"T","e"," ","h","u","u","r">>

\* extract_sale_status with 'verkocht' tested first
extract_sale_status_verkocht_first(h) ==
    LET m == TitleSearch(h)
    IN  IF ~m.found THEN None
        ELSE LET title == lower(m.g)
             IN  IF Contains(title, VERKOCHT) THEN LabelVerkocht
                 ELSE IF Contains(title, VERKOCHT_ONDER_VOORBEHOUD) THEN LabelVerkochtOnderVoorbehoud
                 ELSE IF Contains(title, TE_KOOP) THEN LabelTeKoop
                 ELSE IF Contains(title, TE_HUUR) THEN LabelTeHuur
                 ELSE None

extract_sale_status(h) ==
    LET m == TitleSearch(h)
    IN  IF ~m.found THEN None
        ELSE LET title == lower(m.g)
             IN  IF Contains(title, VERKOCHT_ONDER_VOORBEHOUD) THEN LabelVerkochtOnderVoorbehoud
                 ELSE IF Contains(title, VERKOCHT) THEN LabelVerkocht
                 ELSE IF Contains(title, TE_KOOP) THEN LabelTeKoop
                 ELSE IF Contains(title, TE_HUUR) THEN LabelTeHuur
                 ELSE None

---------------------------------------------------------------------------
(* Inputs of the normalizer: concatenations of at most MaxUrlFrags pieces *)

MaxUrlFrags == 4

UrlFrags ==
    { <<" ">>,
      <<"/">>,
      <<"h","t","t","p","s",":","/","/","w","w","w",".","f","u","n","d","a",".","n","l","/","d","e","t","a","i","l","/","k","o","o","p">>,
      <<"H","T","T","P",":","/","/","F","u","n","d","a",".","N","L","/","d","e","t","a","i","l">>,
      <<"/","4","2">>,
      <<"/","m","e","d","i","a","/","p","l","a","t","t","e","g","r","o","n","d">>,
      <<"x">>,
      <<"h","t","t","p","s",":","/","/","e","x","a","m","p","l","e",".","c","o","m","/","f","o","o">> }

Urls == {Concat(f) : f \in UNION {[1..n -> UrlFrags] : n \in 0..MaxUrlFrags}}

---------------------------------------------------------------------------
(* The normalizer applied once and twice *)

\* the variables of the parts of the program that a specification leaves alone
HandlerIdle ==
    /\ hpc = "idle" /\ req_url = <<>> /\ base_url = None /\ page_url = None
    /\ sale_status = None /\ resp = None /\ page_html = None /\ project_id = None
    /\ fml_resp = None /\ calls = <<>> /\ response = None

StatusIdle == title_doc = <<>> /\ status = None /\ spc = "idle"

ExtractIdle == html = <<>> /\ epc = "idle" /\ ret = None

NormIdle == url = <<>> /\ n1 = None /\ n2 = None /\ npc = "idle"

InitNorm ==
    /\ url \in Urls
    /\ n1 = None
    /\ n2 = None
    /\ npc = "start"
    /\ ExtractIdle /\ StatusIdle /\ HandlerIdle

Normalize ==
    /\ npc = "start"
    /\ n1' = normalize_url(url)
    /\ npc' = "once"
    /\ UNCHANGED <<url, n2>>
    /\ UNCHANGED <<extractVars, statusVars, handlerVars>>

NormalizeAgain ==
    /\ npc = "once"
    /\ n2' = normalize_url(n1)
    /\ npc' = "twice"
    /\ UNCHANGED <<url, n1>>
    /\ UNCHANGED <<extractVars, statusVars, handlerVars>>

NextNorm == Normalize \/ NormalizeAgain

---------------------------------------------------------------------------
(* Inputs of the extractor: concatenations of at most MaxHtmlFrags pieces *)

MaxHtmlFrags == 3

HtmlFrags ==
    { <<"\"","p","r","o","j","e","c","t","I","d","\"",":","1">>,
      <<"0">>,
      <<"<","s","c","r","i","p","t"," ","i","d","=","\"","_","_","N","U","X","T","_","D","A","T","A","_","_","\"",">","[","{","\"","a","\"",":","2","}",",","\"","6","5","4","3","2","1","\"","]","<","/","s","c","r","i","p","t",">">>,
      <<"i","d","=","\"","_","_","N","U","X","T","_","D","A","T","A","_","_","\"",">","[","0",",","\"","6","5","4","3","2","1","\\","n","\"","]","<","/","s","c","r","i","p","t",">">>,
      <<"i","d","=","\"","_","_","N","U","X","T","_","D","A","T","A","_","_","\""," ",">","[","0",",","\"","6","5","4","3","2","1","\"",",","]","<","/","s","c","r","i","p","t",">">>,
      <<"i","d","=","\"","_","_","N","U","X","T","_","D","A","T","A","_","_","\"",">","[","t","r","u","e",",","1","2","3","4","5","]","<","/","s","c","r","i","p","t",">">>,
      <<"p","r","o","j","e","c","t","I","d","=","9","9","9","9","9","9">>,
      <<"p","r","o","j","e","c","t","I","d",":","1","2","3","4","5">>,
      <<"f","m","l","p","u","b",".","s","3","-","e","u","-","w","e","s","t","-","1",".","a","m","a","z","o","n","a","w","s",".","c","o","m","/","7","7","7","7","7","7",".","f","m","l">>,
      <<"f","m","l","p","u","b",".","s","3",".","c","o","m","/","5","5","5","5","5",".","f","m","l">> }

Htmls == {Concat(f) : f \in UNION {[1..n -> HtmlFrags] : n \in 0..MaxHtmlFrags}}

---------------------------------------------------------------------------
(* extract_project_id, one method at a time *)

InitExtract ==
    /\ html \in Htmls
    /\ epc = "method1"
    /\ ret = None
    /\ NormIdle /\ StatusIdle /\ HandlerIdle

\* Proceed with a return None as soon as a method finds nothing
ProceedGivingUp(r, nextpc) ==
    /\ epc' = IF r.kind = "raise" THEN "raised" ELSE "returned"
    /\ ret' = r.v
    /\ UNCHANGED html

\* a method's outcome: return, raise, or go on to the next method
Proceed(r, nextpc) ==
    /\ epc' = CASE r.kind = "return" -> "returned"
                [] r.kind = "raise" -> "raised"
                [] OTHER -> nextpc
    /\ ret' = r.v
    /\ UNCHANGED html

\* RunMethod1 with the inline parameter tried before the data array
RunMethod1InlineFirst ==
    /\ epc = "method1"
    /\ Proceed(IF Method2(html).kind = "return" THEN Method2(html) ELSE Method1(html),
               "method2")
    /\ UNCHANGED <<normVars, statusVars, handlerVars>>

RunMethod1 ==
    /\ epc = "method1"
    /\ Proceed(Method1(html), "method2")
    /\ UNCHANGED <<normVars, statusVars, handlerVars>>

RunMethod2 ==
    /\ epc = "method2"
    /\ Proceed(Method2(html), "method3")
    /\ UNCHANGED <<normVars, statusVars, handlerVars>>

\* the last method, and the return None after it
RunMethod3 ==
    /\ epc = "method3"
    /\ Proceed(OrElse(Method3(html), Return(None)), "returned")
    /\ UNCHANGED <<normVars, statusVars, handlerVars>>

NextExtract == RunMethod1 \/ RunMethod2 \/ RunMethod3

SpecExtract == InitExtract /\ [][NextExtract]_vars

SpecNorm == InitNorm /\ [][NextNorm]_vars

---------------------------------------------------------------------------
(* Inputs of the status extractor: concatenations of at most MaxTitleFrags *)
(* pieces                                                                  *)

MaxTitleFrags == 4

TitleFrags ==
    { <<"<","t","i","t","l","e",">">>,
      <<"<","/","t","i","t","l","e",">">>,
      <<"<","T","I","T","L","E"," ","l","a","n","g","=","\"","n","l","\"",">">>,
      <<"V","e","r","k","o","c","h","t">>,
      <<" ","o","n","d","e","r"," ","v","o","o","r","b","e","h","o","u","d">>,
      <<"T","e"," ","K","o","o","p">>,
      <<"t","e"," ","h","u","u","r">> }

TitleDocs == {Concat(f) : f \in UNION {[1..n -> TitleFrags] : n \in 0..MaxTitleFrags}}

InitStatus ==
    /\ title_doc \in TitleDocs
    /\ status = None
    /\ spc = "start"
    /\ NormIdle /\ ExtractIdle /\ HandlerIdle

ExtractStatus ==
    /\ spc = "start"
    /\ status' = extract_sale_status(title_doc)
    /\ spc' = "returned"
    /\ UNCHANGED <<title_doc, normVars, extractVars, handlerVars>>

NextStatus == ExtractStatus

SpecStatus == InitStatus /\ [][NextStatus]_vars

---------------------------------------------------------------------------
(* funda_fml, the handler of POST /funda-fml.  The handler is one action   *)
(* per network fetch: the fetch, with the outcome the network gives it,    *)
(* and all the handler does with it up to the next fetch or its return.    *)

CAPTCHA_PHRASE == <<"J","e"," ","b","e","n","t"," ","b","i","j","n","a"," ","o","p"," ","d","e"," ","p","a","g","i","n","a"," ","d","i","e"," ","j","e"," ","z","o","e","k","t">>

\* jsonify({"error": message}), code
ErrorReply(code, message) ==
    [code |-> code, error |-> message, data |-> <<>>, sale_status |-> None]

\* jsonify(result): the parsed FML, with the sale_status key if one was set
ResultReply(content, sale) ==
    [code |-> 200, error |-> <<>>, data |-> content, sale_status |-> sale]

MissingUrlReply == ErrorReply(400, <<"Missing URL">>)
BadSchemeReply == ErrorReply(400, <<"URL must start with http:// or https://">>)
\* the dash of the source's message is written as a hyphen
CaptchaReply == ErrorReply(200, <<"Funda captcha - probeer het later opnieuw">>)

\* the reply to a listing without floor plan, sent as a server error
NotFoundReplyAsServerError ==
    ErrorReply(500, <<"Geen plattegrond (FML) gevonden voor deze woning">>)

NotFoundReply == ErrorReply(200, <<"Geen plattegrond (FML) gevonden voor deze woning">>)
FmlStatusReply(code) ==
    ErrorReply(200, <<"FML bestand niet gevonden (status ", ToString(code), ")">>)
InvalidFmlReply == ErrorReply(200, <<"Ongeldig FML bestand">>)

\* except Exception as e: jsonify({"error": str(e)}), 200
ExceptionReply(message) == ErrorReply(200, message)

\* what a fetch gives: an exception of the transport, or a response
Failed(message) == [exc |-> message, code |-> 0, text |-> <<>>]
Fetched(code, text) == [exc |-> <<>>, code |-> code, text |-> text]

\* resp.raise_for_status(): an HTTPError for a 4xx or 5xx status
RaiseForStatus(got) ==
    IF got.code >= 400 THEN <<"HTTP Error ", ToString(got.code), ": ">> ELSE <<>>

\* Python's truth value of a string or None
Truthy(v) == v # None /\ v # <<>>

---------------------------------------------------------------------------
(* The requests and the network of the handler *)

RequestUrls ==
    { <<>>,
      <<"f","u","n","d","a",".","n","l","/","d","e","t","a","i","l","/","k","o","o","p","/","4","2">>,
      <<"h","t","t","p","s",":","/","/","w","w","w",".","f","u","n","d","a",".","n","l","/","d","e","t","a","i","l","/","k","o","o","p","/","4","2","/">>,
      <<" ","h","t","t","p","s",":","/","/","w","w","w",".","f","u","n","d","a",".","n","l","/","d","e","t","a","i","l","/","k","o","o","p","/","4","2","/","m","e","d","i","a","/","p","l","a","t","t","e","g","r","o","n","d","/","1","/"," ">>,
      <<"h","t","t","p","s",":","/","/","e","x","a","m","p","l","e",".","c","o","m","/","f","o","o">> }

\* the bodies of pages: concatenations of at most MaxBodyFrags pieces
MaxBodyFrags == 2

BodyFrags ==
    { CAPTCHA_PHRASE,
      <<"p","r","o","j","e","c","t","I","d","=","9","9","9","9","9","9">>,
      <<"<","t","i","t","l","e",">","V","e","r","k","o","c","h","t","<","/","t","i","t","l","e",">">>,
      <<"<","t","i","t","l","e",">","T","e"," ","k","o","o","p","<","/","t","i","t","l","e",">">> }

Bodies == {Concat(f) : f \in UNION {[1..n -> BodyFrags] : n \in 0..MaxBodyFrags}}

TransportErrors == {<<"Failed to perform, curl: (28) Connection timed out">>}

PageOutcomes ==
    {Failed(e) : e \in TransportErrors}
        \cup {Fetched(c, b) : c \in {200, 404}, b \in Bodies}

FmlContents == {<<"{","}">>, <<" ","{","}">>, <<"{","x">>, <<"x">>}

FmlOutcomes ==
    {Failed(e) : e \in TransportErrors}
        \cup {Fetched(c, b) : c \in {200, 404}, b \in FmlContents}

---------------------------------------------------------------------------
(* The steps of funda_fml *)

InitHandler ==
    /\ hpc = "receive"
    /\ req_url = <<>>
    /\ base_url = None
    /\ page_url = None
    /\ sale_status = None
    /\ resp = None
    /\ page_html = None
    /\ project_id = None
    /\ fml_resp = None
    /\ calls = <<>>
    /\ response = None
    /\ NormIdle /\ ExtractIdle /\ StatusIdle

Respond(reply) ==
    /\ response' = reply
    /\ hpc' = "done"

\* the request is read and the URL checked and normalized
Receive ==
    /\ hpc = "receive"
    /\ \E raw \in RequestUrls :
        LET u == strip(raw)
        IN  /\ req_url' = u
            /\ IF u = <<>>
               THEN Respond(MissingUrlReply) /\ UNCHANGED <<base_url, page_url>>
               ELSE IF ~startswith(u, <<"h","t","t","p">>)
               THEN Respond(BadSchemeReply) /\ UNCHANGED <<base_url, page_url>>
               ELSE /\ base_url' = rstrip(strip(u), "/")
                    /\ page_url' = normalize_url(u)
                    /\ hpc' = IF page_url' # base_url' THEN "fetch_main" ELSE "fetch_page"
                    /\ UNCHANGED response
    /\ UNCHANGED <<sale_status, resp, page_html, project_id, fml_resp, calls>>
    /\ UNCHANGED <<normVars, extractVars, statusVars>>

\* FetchMain with a failed fetch of the main page answered as an error
FetchMainCritical ==
    /\ hpc = "fetch_main"
    /\ \E main_resp \in PageOutcomes :
        IF main_resp.exc = <<>> /\ main_resp.code = 200
        THEN /\ sale_status' = extract_sale_status(main_resp.text)
             /\ calls' = calls \o <<"get main page", "extract_sale_status">>
             /\ hpc' = "fetch_page"
             /\ UNCHANGED response
        ELSE /\ UNCHANGED sale_status
             /\ calls' = Append(calls, "get main page")
             /\ Respond(ExceptionReply(RaiseForStatus(main_resp)))
    /\ UNCHANGED <<req_url, base_url, page_url, resp, page_html, project_id, fml_resp>>
    /\ UNCHANGED <<normVars, extractVars, statusVars>>

\* the main page is fetched for its title; a failure is passed over
FetchMain ==
    /\ hpc = "fetch_main"
    /\ \E main_resp \in PageOutcomes :
        IF main_resp.exc = <<>> /\ main_resp.code = 200
        THEN /\ sale_status' = extract_sale_status(main_resp.text)
             /\ calls' = calls \o <<"get main page", "extract_sale_status">>
        ELSE /\ UNCHANGED sale_status
             /\ calls' = Append(calls, "get main page")
    /\ hpc' = "fetch_page"
    /\ UNCHANGED <<req_url, base_url, page_url, resp, page_html, project_id, fml_resp, response>>
    /\ UNCHANGED <<normVars, extractVars, statusVars>>

\* IsCaptcha with the test left out
IsCaptchaNever(text) == FALSE

\* "Je bent bijna op de pagina die je zoekt" in html
IsCaptcha(text) == Contains(text, CAPTCHA_PHRASE)

\* lines 135-142: the sale status if none is known yet, and the project id
SearchPage(text, found) ==
    /\ sale_status' = IF ~Truthy(sale_status) THEN extract_sale_status(text) ELSE sale_status
    /\ calls' = calls \o
           (IF ~Truthy(sale_status)
            THEN <<"get page", "extract_sale_status", "extract_project_id">>
            ELSE <<"get page", "extract_project_id">>)
    /\ IF found.kind = "raise"
       THEN Respond(ExceptionReply(found.v)) /\ UNCHANGED project_id
       ELSE /\ project_id' = found.v
            /\ IF ~Truthy(found.v)
               THEN Respond(NotFoundReply)
               ELSE hpc' = "fetch_fml" /\ UNCHANGED response

\* the floor-plan page is fetched, checked for the captcha and searched for
\* the project id
FetchPage ==
    /\ hpc = "fetch_page"
    /\ \E got \in PageOutcomes :
        /\ resp' = got
        /\ IF got.exc # <<>>
           THEN /\ Respond(ExceptionReply(got.exc))
                /\ calls' = Append(calls, "get page")
                /\ UNCHANGED <<sale_status, page_html, project_id>>
           ELSE IF RaiseForStatus(got) # <<>>
           THEN /\ Respond(ExceptionReply(RaiseForStatus(got)))
                /\ calls' = Append(calls, "get page")
                /\ UNCHANGED <<sale_status, page_html, project_id>>
           ELSE /\ page_html' = got.text
                /\ IF IsCaptcha(got.text)
                   THEN /\ Respond(CaptchaReply)
                        /\ calls' = Append(calls, "get page")
                        /\ UNCHANGED <<sale_status, project_id>>
                   ELSE SearchPage(got.text, extract_project_id(got.text))
    /\ UNCHANGED <<req_url, base_url, page_url, fml_resp>>
    /\ UNCHANGED <<normVars, extractVars, statusVars>>

\* lines 155-160: the parsed FML is returned, with the sale status if known
ReturnResult(text, result) ==
    IF result.exc # ""
    THEN Respond(ExceptionReply(<<result.exc>>))
    ELSE Respond(ResultReply(text, IF Truthy(sale_status) THEN sale_status ELSE None))

\* the FML file is fetched, checked and parsed
FetchFml ==
    /\ hpc = "fetch_fml"
    /\ \E got \in FmlOutcomes :
        /\ fml_resp' = got
        /\ IF got.exc # <<>>
           THEN /\ Respond(ExceptionReply(got.exc))
                /\ calls' = Append(calls, "get fml")
           ELSE IF got.code # 200
           THEN /\ Respond(FmlStatusReply(got.code))
                /\ calls' = Append(calls, "get fml")
           ELSE IF ~startswith(strip(got.text), <<"{">>)
           THEN /\ Respond(InvalidFmlReply)
                /\ calls' = Append(calls, "get fml")
           ELSE /\ calls' = calls \o <<"get fml", "json.loads">>
                /\ ReturnResult(got.text, json_loads(got.text))
    /\ UNCHANGED <<req_url, base_url, page_url, sale_status, resp, page_html, project_id>>
    /\ UNCHANGED <<normVars, extractVars, statusVars>>

NextHandler == Receive \/ FetchMain \/ FetchPage \/ FetchFml

SpecHandler == InitHandler /\ [][NextHandler]_vars

---------------------------------------------------------------------------
(* Claims about normalize_url, under SpecNorm *)

\* C1: normalize_url is idempotent: normalizing the result of normalize_url
\* again returns that result, for every input string.
C1_Idempotent == npc = "twice" => n2 = n1

\* C2: for every input that contains the segment /media/plattegrond/
\* (also at its very end), normalize_url returns the trimmed input unchanged
\* and appends nothing.
C2_MediaUrlUnchanged ==
    (npc # "start" /\ Contains(url, MEDIA_SEGMENT)) => n1 = TrimUrl(url)

\* the whole of s is a funda.nl detail URL ending in a numeric segment,
\* optionally followed by one slash
EndsInNumericSegment(s) == (Len(s) + 1) \in FundaDetailEnds(s)

\* C3: normalize_url appends /media/plattegrond/1 to the trimmed URL exactly
\* when the trimmed URL does not contain /media/plattegrond/ and is a detail
\* URL that ends in a numeric segment; every other input is returned trimmed
\* and unchanged.
C3_AppendsExactlyForDetailUrl ==
    npc # "start" =>
        LET t == TrimUrl(url)
        IN  n1 = IF ~Contains(t, MEDIA_SEGMENT) /\ EndsInNumericSegment(t)
                 THEN t \o MEDIA_SUFFIX
                 ELSE t

\* the string s without its last character
WithoutLast(s) == SubSeq(s, 1, Len(s) - 1)

\* s ends in two or more slashes
EndsInSlashes(s) == Len(s) >= 2 /\ s[Len(s)] = "/" /\ s[Len(s) - 1] = "/"

\* C11: the trimming step removes the leading and trailing whitespace and
\* then exactly one trailing slash: of an input that ends in two or more
\* slashes only the last one is removed, and the result, to which neither
\* check applies, ends in the slashes that are left.
C11_StripsOneTrailingSlash ==
    (npc # "start" /\ EndsInSlashes(strip(url))) =>
        /\ TrimUrl(url) = WithoutLast(strip(url))
        /\ (~Contains(url, MEDIA_SEGMENT) /\ ~FUNDA_DETAIL_ROOT(WithoutLast(strip(url))))
               => n1 = WithoutLast(strip(url))

---------------------------------------------------------------------------
(* Claims about extract_project_id, under SpecExtract *)

AllDigits(s) == \A i \in 1..Len(s) : IsDigit(s[i])

\* a project identifier: digits only, at least MinIdDigits of them
IsProjectIdentifier(s) == AllDigits(s) /\ Len(s) >= MinIdDigits

\* The embedded-data-array strategy as the claims state it: the value at the
\* marker's index of the parsed array, if the marker and the array are found,
\* the array parses, the index is in bounds and the value is a string or an
\* integer of digits only, at least six of them; None otherwise.
EmbeddedValue(h) ==
    LET m == MarkerSearch(h)
        a == NuxtSearch(h)
    IN  IF ~m.found \/ ~a.found THEN None
        ELSE LET loaded == json_loads(a.g)
             IN  IF loaded.exc # "" \/ ~IntLt(int(m.g), Len(loaded.val.v)) THEN None
                 ELSE LET val == loaded.val.v[DecValue(int(m.g)) + 1]
                      IN  IF val.t \in {"str", "int"} /\ IsProjectIdentifier(val.v)
                          THEN val.v
                          ELSE None

\* what strategies 2 and 3 alone return on h
InlineOrAsset(h) ==
    IF Method2Search(h).found THEN Method2Search(h).g
    ELSE IF Method3Search(h).found THEN Method3Search(h).g
    ELSE None

\* C4: whenever the embedded-data-array strategy succeeds, the function
\* returns the array's value, whatever inline or asset reference the document
\* also holds; strategy 2 is reached only if strategy 1 reported no match, and
\* strategy 3 only if strategies 1 and 2 both reported no match.
C4_ArrayValueHasPriority ==
    /\ (epc \in {"returned", "raised"} /\ EmbeddedValue(html) # None)
           => (epc = "returned" /\ ret = EmbeddedValue(html))
    /\ epc \in {"method2", "method3"} => EmbeddedValue(html) = None
    /\ epc = "method3" => ~Method2Search(html).found

\* the array's value is returned although the document holds a different
\* inline value and an asset reference
C4_Witness ==
    /\ epc = "returned"
    /\ EmbeddedValue(html) # None
    /\ ret = EmbeddedValue(html)
    /\ Method2Search(html).found
    /\ Method2Search(html).g # ret

\* C5: if the marker is present but the array is missing, does not parse, is
\* too short for the index, or holds a value of the wrong type or shape there,
\* the function raises nothing and returns what strategies 2 and 3 return.
C5_EmbeddedStrategyFallsThrough ==
    (MarkerSearch(html).found /\ EmbeddedValue(html) = None) =>
        /\ epc # "raised"
        /\ epc = "returned" => ret = InlineOrAsset(html)

\* no strategy of the function reports a match
NoMethodMatches(h) ==
    /\ Method1(h).kind = "next"
    /\ Method2(h).kind = "next"
    /\ Method3(h).kind = "next"

C7_ReturnsDigitsOnly ==
    (epc = "returned" /\ ret # None) => IsProjectIdentifier(ret)

---------------------------------------------------------------------------
(* Claims about extract_sale_status, under SpecStatus *)

SaleStatusLabels == {LabelVerkochtOnderVoorbehoud, LabelVerkocht, LabelTeKoop, LabelTeHuur}

---------------------------------------------------------------------------
(* Claims about funda_fml, under SpecHandler *)

Called(name) == \E i \in 1..Len(calls) : calls[i] = name

\* C9: whenever the body of the fetched floor-plan page contains the captcha
\* phrase, extract_project_id is not invoked on it, no FML file is fetched,
\* and the response is the captcha error, which differs from the response
\* given when nothing is found.
C9_CaptchaShortCircuits ==
    (page_html # None /\ Contains(page_html, CAPTCHA_PHRASE)) =>
        /\ ~Called("extract_project_id")
        /\ ~Called("get fml")
        /\ hpc = "done"
        /\ response = CaptchaReply
        /\ response # NotFoundReply

\* a captcha page that also holds a project id is answered with the captcha
\* error
C9_Witness ==
    /\ hpc = "done"
    /\ page_html # None
    /\ Contains(page_html, CAPTCHA_PHRASE)
    /\ Method2Search(page_html).found
    /\ response = CaptchaReply

\* the floor-plan page was fetched without captcha and no method found an id
NotFoundOutcome ==
    /\ hpc = "done"
    /\ page_html # None
    /\ ~Contains(page_html, CAPTCHA_PHRASE)
    /\ extract_project_id(page_html) = Return(None)

\* the fetch of the floor-plan page raised, in the transport or for its status
PageFetchFailed ==
    /\ hpc = "done"
    /\ page_html = None
    /\ calls # <<>>
    /\ calls[Len(calls)] = "get page"

NoFloorPlanMessage == <<"Geen plattegrond (FML) gevonden voor deze woning">>

---------------------------------------------------------------------------
(* Claims about the FML file that funda_fml downloads, under SpecHandler *)

\* the FML file was fetched and the handler has answered
FmlFetched == hpc = "done" /\ Called("get fml")

\* the response carries the parsed FML as structured data
ReturnsData == response.error = <<>> /\ response.data # <<>>

\* the first character of the content fetched is "{"
BeginsWithBrace(content) == content # <<>> /\ content[1] = "{"

\* C12: the FML content fetched is parsed and returned as structured data
\* only if the fetch raised nothing, its status was 200 and the content
\* begins with "{"; content that begins with any other character, whitespace
\* too, is answered with the invalid-FML error and is never parsed.
C12_ParsesOnlyBraceContent ==
    FmlFetched =>
        /\ (Called("json.loads") \/ ReturnsData) =>
               /\ fml_resp.exc = <<>>
               /\ fml_resp.code = 200
               /\ BeginsWithBrace(fml_resp.text)
        /\ (fml_resp.exc = <<>> /\ fml_resp.code = 200 /\ ~BeginsWithBrace(fml_resp.text)) =>
               /\ response = InvalidFmlReply
               /\ ~Called("json.loads")

---------------------------------------------------------------------------
(* Claims about the fetch of the main page in funda_fml, under SpecHandler *)

\* the main page was fetched and gave no status: the fetch raised or its
\* status was not 200, so that extract_sale_status was not called on it
MainFetchFailed ==
    /\ Called("get main page")
    /\ (Len(calls) = 1 \/ calls[2] # "extract_sale_status")

WithoutStatus(reply) == [reply EXCEPT !.sale_status = None]

\* The response, its sale_status aside, as the outcomes of the fetch of the
\* floor-plan page and of the FML file determine it: nothing here depends on
\* the main page.
ReplyForFml(fml, parsed) ==
    IF fml.exc # <<>> THEN ExceptionReply(fml.exc)
    ELSE IF fml.code # 200 THEN FmlStatusReply(fml.code)
    ELSE IF ~startswith(strip(fml.text), <<"{">>) THEN InvalidFmlReply
    ELSE IF parsed.exc # "" THEN ExceptionReply(<<parsed.exc>>)
    ELSE ResultReply(fml.text, None)

ReplyForId(found, fml) ==
    IF found.kind = "raise" THEN ExceptionReply(found.v)
    ELSE IF ~Truthy(found.v) THEN NotFoundReply
    ELSE ReplyForFml(fml, json_loads(fml.text))

ReplyFor(page, fml) ==
    IF page.exc # <<>> THEN ExceptionReply(page.exc)
    ELSE IF RaiseForStatus(page) # <<>> THEN ExceptionReply(RaiseForStatus(page))
    ELSE IF Contains(page.text, CAPTCHA_PHRASE) THEN CaptchaReply
    ELSE ReplyForId(extract_project_id(page.text), fml)

\* the status that the floor-plan page alone gives to the response
StatusOfPage(text) ==
    IF Truthy(extract_sale_status(text)) THEN extract_sale_status(text) ELSE None

\* what holds in every state for the main fetch
MainFetchInvariant ==
    /\ Called("get main page") =>
           /\ page_url # base_url
           /\ hpc \in {"fetch_page", "fetch_fml", "done"}
           /\ hpc = "done" => Called("get page")
    /\ (hpc = "done" /\ Called("get main page") /\ Called("get page")) =>
           WithoutStatus(response) = ReplyFor(resp, fml_resp)
    /\ (hpc = "done" /\ MainFetchFailed /\ Called("get page") /\ response.data # <<>>) =>
           response.sale_status = StatusOfPage(page_html)

\* what holds of every step: the fetch of the main page answers nothing
\* and goes on to the floor-plan page, and a status once found stays
MainFetchStep ==
    /\ hpc = "fetch_main" => (hpc' = "fetch_page" /\ response' = response)
    /\ Truthy(sale_status) => sale_status' = sale_status
    /\ (Truthy(sale_status) /\ hpc' = "done" /\ response'.data # <<>>) =>
           response'.sale_status = sale_status

\* C13: the main page is fetched only when normalization changed the URL;
\* whatever that fetch gives, an exception or a status other than 200 too,
\* the handler goes on to fetch the floor-plan page and its response is,
\* the sale_status field aside, the one that the floor-plan page and the FML
\* file determine; a status obtained from the main page is never replaced by
\* one extracted from the floor-plan page.
C13_MainFetchNonCritical == []MainFetchInvariant /\ [][MainFetchStep]_vars

\* after a failed fetch of the main page the FML is returned, with the status
\* that the floor-plan page gave
C13_Witness ==
    /\ hpc = "done"
    /\ MainFetchFailed
    /\ response.error = <<>>
    /\ response.data # <<>>
    /\ response.sale_status # None

\* the main page gave a status and the floor-plan page's title gives another
C13_WitnessKept ==
    /\ hpc = "done"
    /\ Called("get main page")
    /\ ~MainFetchFailed
    /\ page_html # None
    /\ response.data # <<>>
    /\ response.sale_status # None
    /\ response.sale_status # StatusOfPage(page_html)

====
